---- MODULE Spec2Model ----
(***************************************************************************)
(* Model of libimages/algorithms: downsample.cpp (nearest-index resampling *)
(* of images and colour sequences) and blur.cpp (truncated Gaussian blur). *)
(*                                                                         *)
(* Conventions                                                             *)
(*  - a Color<T> is a tuple of channel values, colour c(k) is col[k+1];    *)
(*  - a std::vector<Color<T>> is a sequence of colours, element i of the   *)
(*    code is At(v, i);                                                    *)
(*  - an Image<T> is [width, height, channels, px] with px a function on   *)
(*    <<row, column, channel>>, image(y, x, c) is Pix(img, y, x, c);       *)
(*  - the element type is std::uint8_t (values 0..255);                    *)
(*  - a call is one step (blur of an image: one step per pixel of each     *)
(*    pass); call holds the arguments, ret the outcome of the call, and    *)
(*    pc = "done" says that the call has ended.                            *)
(***************************************************************************)
EXTENDS Integers, Sequences, FiniteSets, TLC

VARIABLES call, ret, pc, kern, tmp, out, pos, reads

vars == <<call, ret, pc, kern, tmp, out, pos, reads>>

----------------------------------------------------------------------------
(* Bounds of the explored inputs *)

MaxLen == 6

MaxDim == 4

MaxTarget == 4

MaxChannels == 4

----------------------------------------------------------------------------
(* Helpers of the model: containers *)

At(v, i) == v[i + 1]

Pix(img, y, x, c) == img.px[<<y, x, c>>]

Pixels(W, H, C) == (0 .. H - 1) \X (0 .. W - 1) \X (0 .. C - 1)

MakeImage(W, H, C, px) == [width |-> W, height |-> H, channels |-> C, px |-> px]

Max(a, b) == IF a >= b THEN a ELSE b

Min(a, b) == IF a <= b THEN a ELSE b

----------------------------------------------------------------------------
(* downsample.cpp *)

clampi_wrap(v, lo, hi) == lo + ((v - lo) % (hi - lo + 1))

clampi(v, lo, hi) == Max(lo, Min(hi, v))

(* std::lround of the non-negative quotient a / b: nearest integer, halves *)
(* away from zero.                                                         *)
lround_floor(a, b) == a \div b

lround(a, b) == (2 * a + b) \div (2 * b)

map_index_round_offbyone(i, n, m) == clampi(lround(i * (m - 1), n), 0, m - 1)

map_index_round(i, n, m) == clampi(lround(i * (m - 1), n - 1), 0, m - 1)

safe_mid_index_upper(m) == IF m <= 0 THEN 0 ELSE (m - 1) \div 2

safe_mid_index(m) == IF m <= 0 THEN 0 ELSE m \div 2

(* downsample(const std::vector<Color<T>>&, int) *)
downsample_colors_upsampling(colors, n) ==
    LET m == Len(colors) IN
    IF n <= 0 THEN <<>>
    ELSE IF colors = <<>> THEN <<>>
    ELSE IF n = 1 THEN <<At(colors, m \div 2)>>
    ELSE [i \in 1 .. n |-> At(colors, map_index_round(i - 1, n, m))]

downsample_colors(colors, n) ==
    LET m == Len(colors) IN
    IF n <= 0 THEN <<>>
    ELSE IF colors = <<>> THEN <<>>
    ELSE IF n >= m THEN colors
    ELSE IF n = 1 THEN <<At(colors, m \div 2)>>
    ELSE [i \in 1 .. n |-> At(colors, map_index_round(i - 1, n, m))]

(* downsample(const Image<T>&, int, int): the outcome of the call *)
downsample_image_channel0(image, w, h) ==
    LET srcW == image.width
        srcH == image.height
        ch == image.channels
    IN  IF ~(w > 0 /\ h > 0) THEN [status |-> "rassert", code |-> 781234981]
        ELSE IF ~(srcW > 0 /\ srcH > 0) THEN [status |-> "rassert", code |-> 781234982]
        ELSE IF ~(ch = 1 \/ ch = 3) THEN [status |-> "rassert", code |-> 781234983]
        ELSE LET sx_center == safe_mid_index(srcW)
                 sy_center == safe_mid_index(srcH)
                 sy(y) == IF h = 1 THEN sy_center ELSE map_index_round(y, h, srcH)
                 sx(x) == IF w = 1 THEN sx_center ELSE map_index_round(x, w, srcW)
             IN  [status |-> "ok",
                  image |-> MakeImage(w, h, ch,
                                [p \in Pixels(w, h, ch) |-> Pix(image, sy(p[1]), sx(p[2]), 0)])]

downsample_image(image, w, h) ==
    LET srcW == image.width
        srcH == image.height
        ch == image.channels
    IN  IF ~(w > 0 /\ h > 0) THEN [status |-> "rassert", code |-> 781234981]
        ELSE IF ~(srcW > 0 /\ srcH > 0) THEN [status |-> "rassert", code |-> 781234982]
        ELSE IF ~(ch = 1 \/ ch = 3) THEN [status |-> "rassert", code |-> 781234983]
        ELSE LET sx_center == safe_mid_index(srcW)
                 sy_center == safe_mid_index(srcH)
                 sy(y) == IF h = 1 THEN sy_center ELSE map_index_round(y, h, srcH)
                 sx(x) == IF w = 1 THEN sx_center ELSE map_index_round(x, w, srcW)
             IN  [status |-> "ok",
                  image |-> MakeImage(w, h, ch,
                                [p \in Pixels(w, h, ch) |-> Pix(image, sy(p[1]), sx(p[2]), p[3])])]

----------------------------------------------------------------------------
(* blur.cpp: numbers                                                       *)
(*                                                                         *)
(* A float is modelled in fixed point: the integer v stands for v / Scale. *)
(* Products and quotients are rounded to a unit, as a float operation      *)
(* rounds to a float; sums are exact, so the order of an accumulation does *)
(* not matter and long sums are split in halves.  Every intermediate       *)
(* value stays below 2^31.  A strength is a fraction <<num, den>>, den > 0,*)
(* with den = 1 when num >= 1000.                                          *)

Scale == 2 ^ 15

ExpTerms == 10

IntMax == 2147483647

IntMin == -2147483647 - 1

(* a * b for 0 <= a <= Scale, b >= 0 *)
MulFx(a, b) == a * (b \div Scale) + (a * (b % Scale) + Scale \div 2) \div Scale

(* floor(r * u / q) for 0 <= r < q and u a power of two: long division *)
RECURSIVE FracFloor(_, _, _)
FracFloor(r, q, u) ==
    IF u = 1 THEN 0
    ELSE IF r >= q - r
         THEN u \div 2 + FracFloor(r - (q - r), q, u \div 2)
         ELSE FracFloor(r + r, q, u \div 2)

(* a / b for 0 <= a <= b, b > 0 *)
DivFx(a, b) == IF a = b THEN Scale ELSE (FracFloor(a, b, 2 * Scale) + 1) \div 2

(* std::exp(-f / Scale) for 0 <= f <= Scale: the exponential series in     *)
(* Horner form, 1 - f/1 (1 - f/2 (1 - f/3 ( ... ))).                       *)
RECURSIVE ExpSeries(_, _)
ExpSeries(f, j) ==
    IF j > ExpTerms THEN Scale
    ELSE Scale - (MulFx(f, ExpSeries(f, j + 1)) + j \div 2) \div j

(* std::exp(-k) for an integer k >= 0, by repeated squaring; it underflows *)
(* to 0 as the float does.                                                 *)
RECURSIVE ExpNegInt(_)
ExpNegInt(k) ==
    IF k = 0 THEN Scale
    ELSE LET h == ExpNegInt(k \div 2)
             sq == MulFx(h, h)
         IN  IF sq = 0 THEN 0
             ELSE IF k % 2 = 1 THEN MulFx(ExpSeries(Scale, 1), sq) ELSE sq

(* std::exp(-p / q), p >= 0, q > 0 *)
exp_neg(p, q) ==
    LET whole == ExpNegInt(p \div q) IN
    IF whole = 0 THEN 0
    ELSE MulFx(whole, ExpSeries(FracFloor(p % q, q, Scale), 1))

(* std::exp(p / q), p >= 0, q > 0 (as 1 / exp(-p / q), while that is not 0) *)
exp_pos(p, q) ==
    LET inv == exp_neg(p, q) IN
    IF inv = 0 THEN IntMax ELSE (Scale * Scale) \div inv

(* a * b on int, a, b >= 0: the product modulo 2^32 read as a signed value. *)
(* A product out of the range of int is undefined; builds without traps    *)
(* wrap.  It is computed from 16-bit and 8-bit halves.                     *)
int_mul(a, b) ==
    LET a0 == a % (2 ^ 16)
        a1 == a \div (2 ^ 16)
        b0 == b % (2 ^ 16)
        b1 == b \div (2 ^ 16)
        U == a0 * (b0 \div (2 ^ 8))
        V == a0 * (b0 % (2 ^ 8))
        t == U + (V \div (2 ^ 8))
        lo == (t % (2 ^ 8)) * (2 ^ 8) + (V % (2 ^ 8))
        hi == ((t \div (2 ^ 8)) + ((a1 * b0) % (2 ^ 16)) + ((a0 * b1) % (2 ^ 16))) % (2 ^ 16)
    IN  IF hi >= 2 ^ 15 THEN (hi - 2 ^ 16) * (2 ^ 16) + lo ELSE hi * (2 ^ 16) + lo

(* i * i does not fit int *)
SquareOverflows(i) == i # 0 /\ i > IntMax \div i

CeilDiv(a, b) == (a + b - 1) \div b

(* strength > 0.0f *)
Positive_or_zero(s) == s[1] >= 0

Positive(s) == s[1] > 0

(* std::max(0.001f, sigma) *)
max_sigma(sigma) ==
    IF sigma[1] <= IntMax \div 1000 /\ 1000 * sigma[1] < sigma[2] THEN <<1, 1000>> ELSE sigma

(* std::ceil(3.0f * s) lies in the range of int *)
CeilFitsInt(s) == s[1] \div s[2] < IntMax \div 3

(* static_cast<int>(std::ceil(3.0f * s)): the conversion of a value out of *)
(* the range of int is undefined; x86 builds yield INT_MIN (cvttss2si),    *)
(* AArch64 builds saturate to INT_MAX.                                     *)
ceil_to_int(s) ==
    IF CeilFitsInt(s)
    THEN {3 * (s[1] \div s[2]) + CeilDiv(3 * (s[1] % s[2]), s[2])}
    ELSE {IntMin, IntMax}

(* std::exp(-(float)(i * i) * inv2s2), inv2s2 = 1 / (2 s s); i * i is an   *)
(* int product; for i = 0 the argument is -0 whatever inv2s2 is.           *)
gauss(i, s) ==
    LET ii == int_mul(IF i < 0 THEN -i ELSE i, IF i < 0 THEN -i ELSE i) IN
    IF ii = 0 THEN exp_neg(0, 1)
    ELSE IF ii > 0 THEN exp_neg(ii * s[2] * s[2], 2 * s[1] * s[1])
    ELSE exp_pos((-ii) * s[2] * s[2], 2 * s[1] * s[1])

(* w[lo] + ... + w[hi] *)
RECURSIVE SumRange(_, _, _)
SumRange(w, lo, hi) ==
    IF lo > hi THEN 0
    ELSE IF lo = hi THEN w[lo]
    ELSE SumRange(w, lo, (lo + hi) \div 2) + SumRange(w, (lo + hi) \div 2 + 1, hi)

(* the weights of radius R: blur.cpp lines 32-43 *)
weights_unnormalized(s, R) == [j \in 1 .. 2 * R + 1 |-> gauss(j - 1 - R, s)]

weights(s, R) ==
    LET v == [j \in 1 .. 2 * R + 1 |-> gauss(j - 1 - R, s)]
        sum == SumRange(v, 1, 2 * R + 1)
    IN  IF sum > 0 THEN [j \in 1 .. 2 * R + 1 |-> DivFx(v[j], sum)] ELSE v

KernelFault(R) == [status |-> "fault", w |-> <<>>, r |-> R]

(* makeGaussianKernel(sigma): the kernels the call can return.  With R =   *)
(* INT_MAX, 2 * R + 1 overflows and the resize to (size_t)-1 elements      *)
(* throws; with R * R out of the range of int a trapping build stops at    *)
(* i * i: the call does not return (status "fault").                       *)
makeGaussianKernel(sigma) ==
    IF ~Positive(sigma) THEN {[status |-> "ok", w |-> <<>>, r |-> 0]}
    ELSE LET s == max_sigma(sigma) IN
         UNION {IF R > (IntMax - 1) \div 2 THEN {KernelFault(R)}
                ELSE {[status |-> "ok", w |-> weights(s, R), r |-> R]}
                     \cup (IF SquareOverflows(R) THEN {KernelFault(R)} ELSE {}) :
                R \in {Max(0, c) : c \in ceil_to_int(s)}}

(* to_f<std::uint8_t> and from_f<std::uint8_t> *)
to_f(v) == v * Scale

clampf(v, lo, hi) == IF v < lo THEN lo ELSE IF hi < v THEN hi ELSE v

from_f(v) == lround(clampf(v, 0, 255 * Scale), Scale)

----------------------------------------------------------------------------
(* blur.cpp: convolution *)

(* acc += k.w[d + R] * sample, over the taps lo .. hi (tap j is offset j-1-R) *)
RECURSIVE Accumulate(_, _, _, _)
Accumulate(w, samples, lo, hi) ==
    IF lo > hi THEN 0
    ELSE IF lo = hi THEN MulFx(w[lo], samples[lo])
    ELSE Accumulate(w, samples, lo, (lo + hi) \div 2)
         + Accumulate(w, samples, (lo + hi) \div 2 + 1, hi)

(* the source index of offset d at position p on an axis of extent E *)
TapIndex(p, d, E) == clampi(p + d, 0, E - 1)

ValidChannels(C) == C = 1 \/ C = 3

NoReads == {}

Outcome(status, code, colors, t, rd, k) ==
    [status |-> status, code |-> code, colors |-> colors, tmp |-> t, reads |-> rd, kern |-> k]

(* blur(const std::vector<Color<T>>&, float), lines 156-190, with kernel k *)
blur_colors_convolve(colors, k) ==
    LET R == k.r
        n == Len(colors)
        C == Len(colors[1])
        T == [c \in 0 .. C - 1 |->
                [i \in 0 .. n - 1 |->
                    Accumulate(k.w,
                               [j \in 1 .. 2 * R + 1 |->
                                  to_f(At(colors, TapIndex(i, j - 1 - R, n))[c + 1])],
                               1, 2 * R + 1)]]
        rd == {<<i, d, TapIndex(i, d, n)>> : i \in 0 .. n - 1, d \in -R .. R}
    IN  IF ~ValidChannels(C) THEN Outcome("rassert", 981234003, <<>>, <<>>, NoReads, k)
        ELSE Outcome("ok", 0,
                     [i \in 1 .. n |->
                        IF C = 1 THEN <<from_f(T[0][i - 1])>>
                        ELSE <<from_f(T[0][i - 1]), from_f(T[1][i - 1]), from_f(T[2][i - 1])>>],
                     T, rd, k)

(* blur(const std::vector<Color<T>>&, float): the outcomes of the call *)
blur_colors(colors, strength) ==
    IF ~Positive(strength) THEN {Outcome("ok", 0, colors, <<>>, NoReads, <<>>)}
    ELSE IF colors = <<>> THEN {Outcome("ok", 0, <<>>, <<>>, NoReads, <<>>)}
    ELSE {IF k.status = "fault" THEN Outcome("fault", 0, <<>>, <<>>, NoReads, k)
          ELSE IF k.r = 0 THEN Outcome("ok", 0, colors, <<>>, NoReads, k)
          ELSE blur_colors_convolve(colors, k) :
          k \in makeGaussianKernel(strength)}

(* blur(const Image<T>&, float), lines 71-82: how the call starts.  "run" *)
(* means that the two passes follow with kernel kern.                      *)
Entry(status, code, k) == [status |-> status, code |-> code, kern |-> k]

blur_image_entry_nonnegative_dims(image, strength) ==
    IF ~Positive(strength) THEN {Entry("ok", 0, <<>>)}
    ELSE IF ~(image.width >= 0 /\ image.height >= 0) THEN {Entry("rassert", 981234001, <<>>)}
    ELSE IF ~ValidChannels(image.channels) THEN {Entry("rassert", 981234002, <<>>)}
    ELSE {IF k.status = "fault" THEN Entry("fault", 0, k)
          ELSE IF k.r = 0 THEN Entry("ok", 0, k)
          ELSE Entry("run", 0, k) :
          k \in makeGaussianKernel(strength)}

blur_image_entry(image, strength) ==
    IF ~Positive(strength) THEN {Entry("ok", 0, <<>>)}
    ELSE IF ~(image.width > 0 /\ image.height > 0) THEN {Entry("rassert", 981234001, <<>>)}
    ELSE IF ~ValidChannels(image.channels) THEN {Entry("rassert", 981234002, <<>>)}
    ELSE {IF k.status = "fault" THEN Entry("fault", 0, k)
          ELSE IF k.r = 0 THEN Entry("ok", 0, k)
          ELSE Entry("run", 0, k) :
          k \in makeGaussianKernel(strength)}

(* the lambda idx(x, y, c) of blur(const Image<T>&, float) *)
idx(x, y, c, W, C) == (y * W + x) * C + c

(* one iteration of the horizontal pass: the accumulator of channel c at (x, y) *)
horizontal_acc(image, k, x, y, c) ==
    Accumulate(k.w,
               [j \in 1 .. 2 * k.r + 1 |->
                  to_f(Pix(image, y, TapIndex(x, j - 1 - k.r, image.width), c))],
               1, 2 * k.r + 1)

(* one iteration of the vertical pass: the accumulator of channel c at (x, y) *)
vertical_acc_from_converted(t, k, x, y, c, W, H, C) ==
    Accumulate(k.w,
               [j \in 1 .. 2 * k.r + 1 |->
                  to_f(from_f(t[idx(x, TapIndex(y, j - 1 - k.r, H), c, W, C)]))],
               1, 2 * k.r + 1)

vertical_acc(t, k, x, y, c, W, H, C) ==
    Accumulate(k.w,
               [j \in 1 .. 2 * k.r + 1 |-> t[idx(x, TapIndex(y, j - 1 - k.r, H), c, W, C)]],
               1, 2 * k.r + 1)

----------------------------------------------------------------------------
(* Inputs: sequences and images whose every element is distinct, so that   *)
(* an output element identifies the source index it was copied from.       *)

GradientValue(i, c) == 8 * i + c

GradientColors(m, C) == [i \in 1 .. m |-> [c \in 1 .. C |-> GradientValue(i - 1, c - 1)]]

PositionValue(y, x, c) == 40 * y + 6 * x + c

PositionImage(W, H, C) ==
    MakeImage(W, H, C, [p \in Pixels(W, H, C) |-> PositionValue(p[1], p[2], p[3])])

DownsampleColorInputs == {GradientColors(m, C) : m \in 0 .. MaxLen, C \in {1, 3}}

(* makeImpulseLine(n, at, val) of blur_tests.cpp *)
ImpulseLine(n, at, val) ==
    [i \in 1 .. n |-> IF i - 1 = at THEN <<val, val, val>> ELSE <<0, 0, 0>>]

Strengths == {<<-1, 1>>, <<0, 1>>, <<1, 2000>>, <<1, 2>>, <<1, 1>>, <<2, 1>>, <<3, 1>>,
              <<1000000000, 1>>}

TestImpulseLen == 81

SymmetryReach == 10

MaxImpulseLen == 22

ImpulseCases ==
    {<<n, p>> \in (2 * SymmetryReach + 1 .. MaxImpulseLen) \X (0 .. MaxImpulseLen) :
        p >= SymmetryReach /\ p + SymmetryReach <= n - 1}
    \cup {<<TestImpulseLen, TestImpulseLen \div 2>>}

BlurColorInputs ==
    {GradientColors(m, C) : m \in 0 .. MaxLen, C \in 1 .. MaxChannels}
    \cup {ImpulseLine(c[1], c[2], 255) : c \in ImpulseCases}

(* the least strength of radius above 46340, where i * i leaves int, on a  *)
(* sequence of one grey colour                                             *)
LargeStrength == <<15447, 1>>

BlurColorCases == BlurColorInputs \X Strengths

LargeBlurColorCases == {<<GradientColors(1, 1), LargeStrength>>}

DownsampleImageInputs ==
    {PositionImage(W, H, C) : W \in 0 .. MaxDim, H \in 0 .. MaxDim, C \in 1 .. MaxChannels}

BlurImageInputs ==
    {PositionImage(W, H, C) : W \in 0 .. MaxDim, H \in 0 .. MaxDim, C \in 1 .. MaxChannels}

----------------------------------------------------------------------------
(* The calls *)

Idle == [status |-> "none"]

Init ==
    /\ call = [fn |-> "none"]
    /\ ret = Idle
    /\ pc = "idle"
    /\ kern = <<>>
    /\ tmp = <<>>
    /\ out = <<>>
    /\ pos = 0
    /\ reads = {}

DownsampleColors ==
    /\ pc = "idle"
    /\ \E colors \in DownsampleColorInputs, n \in -1 .. MaxLen + 1 :
         /\ call' = [fn |-> "downsample_colors", colors |-> colors, n |-> n]
         /\ ret' = [status |-> "ok", colors |-> downsample_colors(colors, n)]
    /\ pc' = "done"
    /\ UNCHANGED <<kern, tmp, out, pos, reads>>

DownsampleImage ==
    /\ pc = "idle"
    /\ \E image \in DownsampleImageInputs, w \in 0 .. MaxTarget, h \in 0 .. MaxTarget :
         /\ call' = [fn |-> "downsample_image", image |-> image, w |-> w, h |-> h]
         /\ ret' = downsample_image(image, w, h)
    /\ pc' = "done"
    /\ UNCHANGED <<kern, tmp, out, pos, reads>>

BlurColorsOn(cases) ==
    /\ pc = "idle"
    /\ \E case \in cases :
         \E o \in blur_colors(case[1], case[2]) :
            /\ call' = [fn |-> "blur_colors", colors |-> case[1], strength |-> case[2]]
            /\ ret' = [status |-> o.status, code |-> o.code, colors |-> o.colors]
            /\ kern' = o.kern
            /\ tmp' = o.tmp
            /\ reads' = o.reads
    /\ pc' = "done"
    /\ UNCHANGED <<out, pos>>

BlurColors == BlurColorsOn(BlurColorCases)

BlurColorsLarge == BlurColorsOn(LargeBlurColorCases)

(* blur(image, strength) up to the allocation of the scratch buffer tmp *)
BlurImageCall ==
    /\ pc = "idle"
    /\ \E image \in BlurImageInputs, strength \in Strengths :
         \E e \in blur_image_entry(image, strength) :
            /\ call' = [fn |-> "blur_image", image |-> image, strength |-> strength]
            /\ kern' = e.kern
            /\ IF e.status = "run"
               THEN /\ pc' = "hpass"
                    /\ tmp' = [i \in 0 .. image.width * image.height * image.channels - 1 |-> 0]
                    /\ ret' = Idle
               ELSE /\ pc' = "done"
                    /\ tmp' = <<>>
                    /\ ret' = [status |-> e.status, code |-> e.code,
                               image |-> IF e.status = "ok" THEN image ELSE <<>>]
    /\ UNCHANGED <<out, pos, reads>>

(* one iteration of "Horizontal pass -> tmp" at pixel number pos; after the *)
(* last one, Image<T> out(W, H, C) is made (no element written yet).        *)
HorizontalStep ==
    /\ pc = "hpass"
    /\ LET image == call.image
           W == image.width
           H == image.height
           C == image.channels
           y == pos \div W
           x == pos % W
       IN  /\ tmp' = [i \in DOMAIN tmp |->
                        IF i \in {idx(x, y, c, W, C) : c \in 0 .. C - 1}
                        THEN horizontal_acc(image, kern, x, y, i - idx(x, y, 0, W, C))
                        ELSE tmp[i]]
           /\ reads' = reads \cup
                 {[pass |-> "h", line |-> y, p |-> x, d |-> d,
                   idx |-> TapIndex(x, d, W)] : d \in -kern.r .. kern.r}
           /\ IF pos + 1 < W * H
              THEN pos' = pos + 1 /\ pc' = "hpass"
              ELSE pos' = 0 /\ pc' = "vpass"
    /\ UNCHANGED <<call, ret, kern, out>>

(* one iteration of "Vertical pass: tmp -> out" at pixel number pos *)
VerticalStep ==
    /\ pc = "vpass"
    /\ LET image == call.image
           W == image.width
           H == image.height
           C == image.channels
           y == pos \div W
           x == pos % W
       IN  /\ out' = [q \in DOMAIN out \cup {<<y, x, c>> : c \in 0 .. C - 1} |->
                        IF q[1] = y /\ q[2] = x
                        THEN from_f(vertical_acc(tmp, kern, x, y, q[3], W, H, C))
                        ELSE out[q]]
           /\ reads' = reads \cup
                 {[pass |-> "v", line |-> x, p |-> y, d |-> d,
                   idx |-> TapIndex(y, d, H)] : d \in -kern.r .. kern.r}
           /\ IF pos + 1 < W * H
              THEN pos' = pos + 1 /\ pc' = "vpass" /\ ret' = ret
              ELSE /\ pos' = pos
                   /\ pc' = "done"
                   /\ ret' = [status |-> "ok", code |-> 0, image |-> MakeImage(W, H, C, out')]
    /\ UNCHANGED <<call, kern, tmp>>

(* The caller takes the result; the functions keep no state between calls. *)
Return ==
    /\ pc = "done"
    /\ call' = [fn |-> "none"]
    /\ ret' = Idle
    /\ pc' = "idle"
    /\ kern' = <<>>
    /\ tmp' = <<>>
    /\ out' = <<>>
    /\ pos' = 0
    /\ reads' = {}

Next ==
    \/ DownsampleColors
    \/ DownsampleImage
    \/ BlurColors
    \/ BlurImageCall
    \/ HorizontalStep
    \/ VerticalStep
    \/ Return

Spec == Init /\ [][Next]_vars

(* The same calls, and the blur of a sequence with a kernel of radius 46341 *)
NextLarge ==
    \/ BlurColorsLarge
    \/ Next

SpecLarge == Init /\ [][NextLarge]_vars

----------------------------------------------------------------------------
(* Properties.  The reference formulas below are written from the          *)
(* statements, independently of the operators that model the code.         *)

(* The integer nearest to a / b (a >= 0, b > 0), halves away from zero.    *)
RoundHalfAway(a, b) ==
    CHOOSE k \in 0 .. a + 1 : 2 * b * k - b <= 2 * a /\ 2 * a < 2 * b * k + b

IsTie(a, b) == (2 * a) % (2 * b) = b

(* Source index of output position i: srcN source samples, dstN outputs.   *)
NearestIndex(i, srcN, dstN) ==
    Max(0, Min(srcN - 1, RoundHalfAway(i * (srcN - 1), dstN - 1)))

DoneColors == pc = "done" /\ call.fn = "downsample_colors"

DoneImage == pc = "done" /\ call.fn = "downsample_image"

(* C1: for a source of length m and a target 2 <= n < m, downsample(colors, n) *)
(* has exactly n elements and element i is colors[round(i*(m-1)/(n-1))],       *)
(* halves rounded away from zero, clamped to [0, m-1].                         *)
C1_RoundMapping ==
    DoneColors =>
        LET m == Len(call.colors)
            n == call.n
        IN  (2 <= n /\ n < m) =>
                /\ ret.status = "ok"
                /\ Len(ret.colors) = n
                /\ \A i \in 0 .. n - 1 :
                     At(ret.colors, i) = At(call.colors, NearestIndex(i, m, n))

C1_Witness ==
    /\ DoneColors
    /\ 2 <= call.n /\ call.n < Len(call.colors)
    /\ \E i \in 0 .. call.n - 1 :
         /\ IsTie(i * (Len(call.colors) - 1), call.n - 1)
         /\ At(ret.colors, i) =
              At(call.colors, (i * (Len(call.colors) - 1)) \div (call.n - 1) + 1)

(* C2: for a source of length m >= 2 and any target n >= 2 (n >= m included) *)
(* the first and the last element of the result are the first and the last   *)
(* source element.                                                           *)
C2_Endpoints ==
    DoneColors =>
        LET m == Len(call.colors)
            n == call.n
        IN  (m >= 2 /\ n >= 2) =>
                /\ Len(ret.colors) >= 2
                /\ At(ret.colors, 0) = At(call.colors, 0)
                /\ At(ret.colors, Len(ret.colors) - 1) = At(call.colors, m - 1)

C2_Witness ==
    /\ DoneColors
    /\ Len(call.colors) >= 4
    /\ call.n >= 2 /\ call.n < Len(call.colors) - 1
    /\ At(ret.colors, call.n - 1) = At(call.colors, Len(call.colors) - 1)

(* C3: a target size of 1 selects source index floor(N/2): downsample(colors, 1) *)
(* is <<colors[floor(m/2)]>> for every m >= 1, and in downsample(image, w, h)    *)
(* every output pixel is read from column floor(srcW/2) when w = 1 and from row  *)
(* floor(srcH/2) when h = 1, whatever the size of the other axis.                *)
C3_TargetOneTakesMiddle ==
    /\ (DoneColors /\ call.n = 1 /\ Len(call.colors) >= 1) =>
             ret.colors = <<At(call.colors, Len(call.colors) \div 2)>>
    /\ (DoneImage /\ ret.status = "ok") =>
         LET src == call.image
             dst == ret.image
         IN  /\ call.w = 1 =>
                   \A y \in 0 .. call.h - 1 :
                      \E sy \in 0 .. src.height - 1 :
                         \A c \in 0 .. src.channels - 1 :
                            Pix(dst, y, 0, c) = Pix(src, sy, src.width \div 2, c)
             /\ call.h = 1 =>
                   \A x \in 0 .. call.w - 1 :
                      \E sx \in 0 .. src.width - 1 :
                         \A c \in 0 .. src.channels - 1 :
                            Pix(dst, 0, x, c) = Pix(src, src.height \div 2, sx, c)

C3_Witness ==
    /\ DoneImage
    /\ ret.status = "ok"
    /\ call.w = 1 /\ call.h = 3
    /\ call.image.width = 4 /\ call.image.height = 2 /\ call.image.channels = 3
    /\ Pix(ret.image, 2, 0, 1) = Pix(call.image, 1, 2, 1)

(* C4: downsample(colors, n) always returns: the empty sequence when n <= 0 or *)
(* when the source is empty, the source itself when n >= m, and in every case  *)
(* a result of length max(0, min(n, m)).                                       *)
C4_DegenerateSequences ==
    DoneColors =>
        LET m == Len(call.colors)
            n == call.n
        IN  /\ ret.status = "ok"
            /\ n <= 0 => ret.colors = <<>>
            /\ m = 0 => ret.colors = <<>>
            /\ (n >= m /\ n > 0) => ret.colors = call.colors
            /\ Len(ret.colors) = Max(0, Min(n, m))

C4_Witness ==
    /\ DoneColors
    /\ Len(call.colors) >= 2
    /\ call.n > Len(call.colors)
    /\ ret.colors = call.colors

(* C5: for a valid image (srcW > 0, srcH > 0, 1 or 3 channels) and w > 0, h > 0 *)
(* the result has width w, height h and the source's channels, and pixel        *)
(* (y, x) is, in every channel, source pixel (sy(y), sx(x)), sy a function of   *)
(* y, h, srcH and sx a function of x, w, srcW only.                             *)
AxisIndex(i, dstN, srcN) == IF dstN = 1 THEN srcN \div 2 ELSE NearestIndex(i, srcN, dstN)

C5_ImagePointSampling ==
    DoneImage =>
        LET src == call.image
            w == call.w
            h == call.h
        IN  (src.width > 0 /\ src.height > 0 /\ src.channels \in {1, 3} /\ w > 0 /\ h > 0) =>
                /\ ret.status = "ok"
                /\ ret.image.width = w
                /\ ret.image.height = h
                /\ ret.image.channels = src.channels
                /\ DOMAIN ret.image.px = Pixels(w, h, src.channels)
                /\ \A y \in 0 .. h - 1, x \in 0 .. w - 1, c \in 0 .. src.channels - 1 :
                     Pix(ret.image, y, x, c) =
                        Pix(src, AxisIndex(y, h, src.height), AxisIndex(x, w, src.width), c)

C5_Witness ==
    /\ DoneImage
    /\ ret.status = "ok"
    /\ call.image.width = 4 /\ call.image.height = 3 /\ call.image.channels = 3
    /\ call.w = 3 /\ call.h = 2
    /\ \A c \in 0 .. 2 : Pix(ret.image, 1, 1, c) = Pix(call.image, 2, 2, c)

DoneBlurColors == pc = "done" /\ call.fn = "blur_colors"

DoneBlurImage == pc = "done" /\ call.fn = "blur_image"

(* C6: blur with strength <= 0 returns its input: the sequence overload a  *)
(* sequence of the same length and elements, the image overload an image   *)
(* of the same width, height, channels and elements, for every input.      *)
C6_NonPositiveStrengthIsIdentity ==
    /\ (DoneBlurColors /\ call.strength[1] <= 0) =>
          /\ ret.status = "ok"
          /\ Len(ret.colors) = Len(call.colors)
          /\ \A i \in 1 .. Len(call.colors) : ret.colors[i] = call.colors[i]
    /\ (call.fn = "blur_image" /\ call.strength[1] <= 0) =>
          /\ pc = "done"
          /\ ret.status = "ok"
          /\ ret.image.width = call.image.width
          /\ ret.image.height = call.image.height
          /\ ret.image.channels = call.image.channels
          /\ ret.image.px = call.image.px

C6_Witness ==
    /\ DoneBlurImage
    /\ call.strength = <<0, 1>>
    /\ call.image.width = 2 /\ call.image.height = 0 /\ call.image.channels = 2
    /\ ret.status = "ok"
    /\ ret.image = call.image

(* C7 as stated: a source with a channel count other than 1 or 3 ends in a *)
(* fatal assertion for every strength, and so does an image of             *)
(* non-positive width or height.                                           *)
C7_AssertsForEveryStrength ==
    /\ (call.fn = "blur_image"
          /\ (call.image.channels \notin {1, 3}
                \/ call.image.width <= 0 \/ call.image.height <= 0)) =>
          (pc = "done" /\ ret.status = "rassert")
    /\ (DoneBlurColors /\ call.colors # <<>> /\ Len(call.colors[1]) \notin {1, 3}) =>
          ret.status = "rassert"

(* C7 amended: with strength > 0 an image of non-positive width or height  *)
(* or of a channel count other than 1 or 3 ends in a fatal assertion       *)
(* before any pass; with strength > 0, a non-empty sequence and a kernel   *)
(* of radius >= 1 built, a first colour of a channel count other than 1 or *)
(* 3 ends in a fatal assertion.                                            *)
C7_AssertsForPositiveStrength ==
    /\ (call.fn = "blur_image" /\ call.strength[1] > 0) =>
          /\ (call.image.width <= 0 \/ call.image.height <= 0) =>
                (pc = "done" /\ ret.status = "rassert" /\ ret.code = 981234001)
          /\ (call.image.width > 0 /\ call.image.height > 0
                /\ call.image.channels \notin {1, 3}) =>
                (pc = "done" /\ ret.status = "rassert" /\ ret.code = 981234002)
    /\ (DoneBlurColors /\ call.strength[1] > 0 /\ call.colors # <<>>
          /\ Len(call.colors[1]) \notin {1, 3}
          /\ kern.status = "ok" /\ kern.r >= 1) =>
          (ret.status = "rassert" /\ ret.code = 981234003)

C7_Witness ==
    /\ DoneBlurColors
    /\ call.strength = <<3, 1>>
    /\ Len(call.colors) = 4 /\ Len(call.colors[1]) = 2
    /\ kern.r = 9
    /\ ret.status = "rassert"

(* C8: every sample read by a pass at position p and offset d of an axis   *)
(* of extent E is the one at max(0, min(E-1, p+d)): never outside          *)
(* [0, E-1], never wrapped, and an out-of-range tap adds the weighted edge *)
(* sample to the accumulator.                                              *)
EdgeIndex(p, d, E) == Max(0, Min(E - 1, p + d))

Abs(v) == IF v < 0 THEN -v ELSE v

RECURSIVE EdgeSum(_, _, _, _)
EdgeSum(w, R, sample, d) ==
    IF d < -R THEN 0
    ELSE EdgeSum(w, R, sample, d - 1) + MulFx(w[d + R + 1], sample[d])

C8_ClampToEdge ==
    /\ DoneBlurColors =>
          LET n == Len(call.colors) IN
          /\ \A r \in reads : r[3] = EdgeIndex(r[1], r[2], n) /\ r[3] \in 0 .. n - 1
          /\ (ret.status = "ok" /\ kern # <<>> /\ kern.r > 0) =>
                /\ reads = {<<i, d, EdgeIndex(i, d, n)>> :
                              i \in 0 .. n - 1, d \in -kern.r .. kern.r}
                /\ \A i \in 0 .. n - 1, c \in 0 .. Len(call.colors[1]) - 1 :
                      tmp[c][i] =
                         EdgeSum(kern.w, kern.r,
                                 [d \in -kern.r .. kern.r |->
                                    Scale * At(call.colors, EdgeIndex(i, d, n))[c + 1]],
                                 kern.r)
    /\ (call.fn = "blur_image" /\ pc \in {"hpass", "vpass", "done"}) =>
          LET W == call.image.width
              H == call.image.height
              C == call.image.channels
          IN  /\ \A r \in reads :
                    LET E == IF r.pass = "h" THEN W ELSE H IN
                    r.idx = EdgeIndex(r.p, r.d, E) /\ r.idx \in 0 .. E - 1
              /\ (pc \in {"vpass", "done"} /\ kern # <<>> /\ kern.status = "ok" /\ kern.r > 0) =>
                    /\ \A y \in 0 .. H - 1, x \in 0 .. W - 1, d \in -kern.r .. kern.r :
                          [pass |-> "h", line |-> y, p |-> x, d |-> d,
                           idx |-> EdgeIndex(x, d, W)] \in reads
                    /\ \A y \in 0 .. H - 1, x \in 0 .. W - 1, c \in 0 .. C - 1 :
                          tmp[(y * W + x) * C + c] =
                             EdgeSum(kern.w, kern.r,
                                     [d \in -kern.r .. kern.r |->
                                        Scale * Pix(call.image, y, EdgeIndex(x, d, W), c)],
                                     kern.r)
              /\ (pc = "done" /\ kern # <<>> /\ kern.status = "ok" /\ kern.r > 0) =>
                    /\ \A y \in 0 .. H - 1, x \in 0 .. W - 1, d \in -kern.r .. kern.r :
                          [pass |-> "v", line |-> x, p |-> y, d |-> d,
                           idx |-> EdgeIndex(y, d, H)] \in reads
                    /\ \A y \in 0 .. H - 1, x \in 0 .. W - 1, c \in 0 .. C - 1 :
                          2 * Abs(Scale * Pix(ret.image, y, x, c)
                                  - EdgeSum(kern.w, kern.r,
                                            [d \in -kern.r .. kern.r |->
                                               tmp[(EdgeIndex(y, d, H) * W + x) * C + c]],
                                            kern.r)) <= Scale

C8_Witness ==
    /\ DoneBlurImage
    /\ ret.status = "ok"
    /\ kern # <<>> /\ kern.r = 3
    /\ call.image.width = 2 /\ call.image.height = 3 /\ call.image.channels = 3
    /\ [pass |-> "h", line |-> 2, p |-> 1, d |-> 3, idx |-> 1] \in reads
    /\ [pass |-> "v", line |-> 0, p |-> 0, d |-> -2, idx |-> 0] \in reads
    /\ Pix(ret.image, 2, 1, 2) > 0

(* C9: for an 8-bit 3-channel sequence that is 0 except 255 in all         *)
(* channels at one index p at least 10 positions from both ends,           *)
(* blur(colors, 3.0) has the same length and in every channel the value at *)
(* p is below 255, the values at p-1 and p+1 are above 0, and the values   *)
(* at p-d and p+d differ by at most 2 for d in 1..10.                      *)
ImpulseAt(colors, p) == colors = ImpulseLine(Len(colors), p, 255)

C9_ImpulseSpreadsSymmetrically ==
    (DoneBlurColors /\ call.strength = <<3, 1>>) =>
        \A p \in SymmetryReach .. Len(call.colors) - 1 - SymmetryReach :
            ImpulseAt(call.colors, p) =>
                /\ ret.status = "ok"
                /\ Len(ret.colors) = Len(call.colors)
                /\ \A c \in 1 .. 3 :
                     /\ At(ret.colors, p)[c] < 255
                     /\ At(ret.colors, p - 1)[c] > 0
                     /\ At(ret.colors, p + 1)[c] > 0
                     /\ \A d \in 1 .. SymmetryReach :
                          Abs(At(ret.colors, p - d)[c] - At(ret.colors, p + d)[c]) <= 2

C9_Witness ==
    /\ DoneBlurColors
    /\ call.strength = <<3, 1>>
    /\ Len(call.colors) = TestImpulseLen
    /\ ImpulseAt(call.colors, TestImpulseLen \div 2)
    /\ ret.status = "ok"
    /\ At(ret.colors, TestImpulseLen \div 2) = <<34, 34, 34>>
    /\ At(ret.colors, TestImpulseLen \div 2 - 1) = <<32, 32, 32>>

(* C10: for every sigma > 0 makeGaussianKernel(sigma) returns a kernel of  *)
(* radius R = ceil(3 * max(0.001, sigma)) with exactly 2R+1 weights, every *)
(* weight non-negative, w[R+k] = w[R-k] for k in 0..R, the centre tap the  *)
(* largest weight, and the weights summing to 1 (here: up to the rounding  *)
(* of the weights, half a unit each).                                      *)
IsCeilOfThrice(r, s) ==
    /\ s[1] \div s[2] < IntMax \div 3
    /\ r = 3 * (s[1] \div s[2]) + CeilDiv(3 * (s[1] % s[2]), s[2])

AtLeastMinSigma(s) == IF 1000 * s[1] < s[2] THEN <<1, 1000>> ELSE s

KernelBuilt == call.fn \in {"blur_colors", "blur_image"} /\ kern # <<>> /\ call.strength[1] > 0

C10_KernelShape ==
    KernelBuilt =>
        LET R == kern.r
            w == kern.w
        IN  /\ kern.status = "ok"
            /\ IsCeilOfThrice(R, IF call.strength[1] >= 1000 THEN call.strength
                                 ELSE AtLeastMinSigma(call.strength))
            /\ Len(w) = 2 * R + 1
            /\ \A j \in 1 .. Len(w) : w[j] >= 0
            /\ \A k \in 0 .. R : w[R + 1 + k] = w[R + 1 - k]
            /\ \A j \in 1 .. Len(w) : w[j] <= w[R + 1]
            /\ 2 * Abs(SumRange(w, 1, Len(w)) - Scale) <= Len(w)

(* C11: in blur(image, strength) with strength > 0 the horizontal pass is  *)
(* completed into the scratch buffer before the vertical pass reads it,    *)
(* the vertical pass accumulates from the unrounded scratch values, and    *)
(* the conversion to the element type (clamp to [0,255], round to nearest) *)
(* is applied once per output pixel-channel, after the vertical            *)
(* accumulation; the result equals the single conversion of the 2D         *)
(* convolution with the kernel w[dy]*w[dx] under clamp-to-edge.            *)
Convert8(v) ==
    CHOOSE k \in 0 .. 255 :
        LET u == Max(0, Min(255 * Scale, v)) IN
        2 * Scale * k - Scale <= 2 * u /\ 2 * u < 2 * Scale * k + Scale

(* floor of sum over dx of wy * w[dx] * pixel, as <<whole, rest / Scale>> *)
RECURSIVE RowProduct(_, _, _, _, _, _, _, _)
RowProduct(image, w, R, wy, sy, x, c, dx) ==
    IF dx < -R THEN <<0, 0>>
    ELSE LET prev == RowProduct(image, w, R, wy, sy, x, c, dx - 1)
             P == wy * w[dx + R + 1]
             v == Pix(image, sy, EdgeIndex(x, dx, image.width), c)
         IN  <<prev[1] + (P \div Scale) * v, prev[2] + (P % Scale) * v>>

(* the 2D convolution at (y, x, c) in units of 1 / Scale, rounded down *)
RECURSIVE Convolution2D(_, _, _, _, _, _, _)
Convolution2D(image, w, R, y, x, c, dy) ==
    IF dy < -R THEN <<0, 0>>
    ELSE LET prev == Convolution2D(image, w, R, y, x, c, dy - 1)
             row == RowProduct(image, w, R, w[dy + R + 1],
                               EdgeIndex(y, dy, image.height), x, c, R)
             rest == prev[2] + (row[2] % Scale)
         IN  <<prev[1] + row[1] + (row[2] \div Scale) + (rest \div Scale), rest % Scale>>

PassesRan == call.fn = "blur_image" /\ pc \in {"hpass", "vpass", "done"}
                /\ kern # <<>> /\ kern.status = "ok" /\ kern.r > 0

PixelNumber(y, x, W) == y * W + x

C11_PassOrderAndSingleConversion ==
    PassesRan =>
        LET image == call.image
            W == image.width
            H == image.height
            C == image.channels
            R == kern.r
            w == kern.w
            Scratch(y, x, c) ==
                EdgeSum(w, R, [d \in -R .. R |->
                                 Scale * Pix(image, y, EdgeIndex(x, d, W), c)], R)
            Vertical(y, x, c) ==
                EdgeSum(w, R, [d \in -R .. R |->
                                 Scratch(EdgeIndex(y, d, H), x, c)], R)
        IN  /\ call.strength[1] > 0
            /\ pc = "hpass" =>
                  /\ out = <<>>
                  /\ \A r \in reads : r.pass = "h"
                  /\ \A y \in 0 .. H - 1, x \in 0 .. W - 1, c \in 0 .. C - 1 :
                        tmp[(y * W + x) * C + c] =
                           IF PixelNumber(y, x, W) < pos THEN Scratch(y, x, c) ELSE 0
            /\ pc \in {"vpass", "done"} =>
                  \A y \in 0 .. H - 1, x \in 0 .. W - 1, c \in 0 .. C - 1 :
                        tmp[(y * W + x) * C + c] = Scratch(y, x, c)
            /\ pc = "vpass" =>
                  /\ DOMAIN out = {q \in Pixels(W, H, C) : PixelNumber(q[1], q[2], W) < pos}
                  /\ \A q \in DOMAIN out : out[q] = Convert8(Vertical(q[1], q[2], q[3]))
            /\ pc = "done" =>
                  /\ DOMAIN ret.image.px = Pixels(W, H, C)
                  /\ \A y \in 0 .. H - 1, x \in 0 .. W - 1, c \in 0 .. C - 1 :
                        /\ Pix(ret.image, y, x, c) = Convert8(Vertical(y, x, c))
                        /\ Pix(ret.image, y, x, c) =
                              Convert8(Convolution2D(image, w, R, y, x, c, R)[1])

(* a finished blur one of whose elements would differ had the scratch      *)
(* values been converted to the element type between the passes            *)
C11_Witness ==
    /\ DoneBlurImage
    /\ PassesRan
    /\ ret.status = "ok"
    /\ \E q \in Pixels(call.image.width, call.image.height, call.image.channels) :
          ret.image.px[q] #
             Convert8(EdgeSum(kern.w, kern.r,
                              [d \in -kern.r .. kern.r |->
                                 Scale * Convert8(tmp[(EdgeIndex(q[1], d, call.image.height)
                                                        * call.image.width + q[2])
                                                       * call.image.channels + q[3]])],
                              kern.r))

(* C12: for every strength > 0 the radius computed by makeGaussianKernel   *)
(* is at least 1, so the k.r == 0 shortcut of blur(image, strength) and    *)
(* blur(colors, strength) is never taken: a call that builds the kernel    *)
(* runs the convolution with at least 3 taps and returns the output built  *)
(* from it.                                                                *)
C12_RadiusAtLeastOne ==
    (KernelBuilt /\ pc = "done") =>
        /\ kern.status = "ok"
        /\ kern.r >= 1
        /\ Len(kern.w) >= 3
        /\ (ret.status = "ok") =>
              /\ reads # {}
              /\ call.fn = "blur_image" =>
                    DOMAIN ret.image.px = DOMAIN out /\ \A q \in DOMAIN out : ret.image.px[q] = out[q]
              /\ call.fn = "blur_colors" =>
                    \A i \in 1 .. Len(ret.colors) :
                        \A c \in 1 .. Len(ret.colors[i]) :
                            2 * Abs(Scale * ret.colors[i][c] - Min(255 * Scale, tmp[c - 1][i - 1])) <= Scale

====
